---------------------------- MODULE Spec2Model ----------------------------
(***************************************************************************)
(* A model of gofrac's fractal core (src/frac.go): the FracIt dispatcher   *)
(* with its pool of row workers, and the four iteration variants           *)
(* (Mandelbrot, JuliaQ, JuliaR, MandelPG) built on FracData.               *)
(*                                                                         *)
(* Numbers.  A float64 is modelled as a fraction n/d in lowest terms with  *)
(* d a power of two, or as one of +Inf (1/0), -Inf (-1/0) and NaN (0/0);   *)
(* zero has no sign.  Within the integers of the model (below 2^31) such   *)
(* a fraction is a float64 exactly, and sums, differences and products of  *)
(* them are exact too.  The operations that round in the program are       *)
(* defined only where they do not: a quotient (RDiv) where it is again     *)
(* such a fraction, and a modulus comparison (AbsLeq, AbsLess) where the   *)
(* rounding of the modulus cannot change its side.  On Inf and NaN the     *)
(* arithmetic follows IEEE 754.  A complex128 is a pair of such values.    *)
(* The arithmetic is written as functions, so that an operand is a value   *)
(* by the time it is used.                                                 *)
(***************************************************************************)
EXTENDS Integers, Sequences, FiniteSets, TLC

(***************************************************************************)
(* Bounds of the model.                                                    *)
(***************************************************************************)
MaxIter == 3
MaxEvalIter == 5
MaxRows == 2
MaxCols == 2
MaxWorkers == 2
MaxRadius == 2
MaxCoord == 2
MaxEps == 2

\* An evaluation that has applied StepLimit steps without leaving its loop
\* is reported as still running (returned = FALSE).
StepLimit == MaxEvalIter + 2

(***************************************************************************)
(* complex128                                                              *)
(***************************************************************************)
\* --- float64 ---
GCD[a \in Nat, b \in Nat] == IF b = 0 THEN a ELSE GCD[b, a % b]

IntAbs[n \in Int] == IF n < 0 THEN -n ELSE n

IsPow2[k \in Nat] == k = 1 \/ (k > 1 /\ k % 2 = 0 /\ IsPow2[k \div 2])

\* The fraction n/d, d > 0, in lowest terms.
Lowest[n \in Int, d \in Nat \ {0}] ==
    IF d = 1 THEN [n |-> n, d |-> 1]
    ELSE LET g == GCD[IntAbs[n], d] IN [n |-> n \div g, d |-> d \div g]

\* The float64 values: integers, fractions over a power of two, Inf, NaN.
Float ==
    {x \in [n : Int, d : Nat] :
        \/ x.d = 1
        \/ x.d = 0 /\ x.n \in {-1, 0, 1}
        \/ x.d > 1 /\ IsPow2[x.d] /\ x.n % 2 # 0}

\* A float64 constant such as 0.25 = 1/4.
ExactConstants == {q \in Int \X Nat : IsPow2[q[2]]}
Rat[p \in ExactConstants] == Lowest[p[1], p[2]]

\* float64(n) for an integer n
R[n \in Int] == [n |-> n, d |-> 1]

PInf == [n |-> 1, d |-> 0]

NInf == [n |-> -1, d |-> 0]

NaN == [n |-> 0, d |-> 0]

isNaN[x \in Float] == x.d = 0 /\ x.n = 0

isInf[x \in Float] == x.d = 0 /\ x.n # 0

isFinite[x \in Float] == x.d > 0

RNeg[x \in Float] == [n |-> -x.n, d |-> x.d]

RAbs[x \in Float] == [n |-> IntAbs[x.n], d |-> x.d]

RAdd[x \in Float, y \in Float] ==
    IF x.d = 1 /\ y.d = 1 THEN [n |-> x.n + y.n, d |-> 1]
    ELSE IF isNaN[x] \/ isNaN[y] THEN NaN
    ELSE IF isInf[x] THEN (IF isInf[y] /\ y # x THEN NaN ELSE x)
    ELSE IF isInf[y] THEN y
    ELSE Lowest[x.n * y.d + y.n * x.d, x.d * y.d]

RSub[x \in Float, y \in Float] == RAdd[x, RNeg[y]]

RMul[x \in Float, y \in Float] ==
    IF x.d = 1 /\ y.d = 1 THEN [n |-> x.n * y.n, d |-> 1]
    ELSE IF isNaN[x] \/ isNaN[y] THEN NaN
    ELSE IF isInf[x] \/ isInf[y]
    THEN IF x.n = 0 \/ y.n = 0 THEN NaN
         ELSE IF (x.n > 0) = (y.n > 0) THEN PInf ELSE NInf
    ELSE Lowest[x.n * y.n, x.d * y.d]

\* x / y is computed without rounding: an operand is Inf or NaN, y is zero,
\* or the quotient is a fraction over a power of two.
DivExact(x, y) ==
    \/ x.d = 0 \/ y.d = 0 \/ y.n = 0
    \/ IsPow2[Lowest[IntAbs[x.n] * y.d, x.d * IntAbs[y.n]].d]

ExactQuotients == {q \in Float \X Float : DivExact(q[1], q[2])}
RDiv[p \in ExactQuotients] ==
    LET x == p[1]
        y == p[2]
    IN  IF isNaN[x] \/ isNaN[y] THEN NaN
        ELSE IF isInf[x]
        THEN IF isInf[y] THEN NaN
             ELSE IF (x.n > 0) = (y.n >= 0) THEN PInf ELSE NInf
        ELSE IF isInf[y] THEN R[0]
        ELSE IF y.n = 0
        THEN IF x.n = 0 THEN NaN ELSE IF x.n > 0 THEN PInf ELSE NInf
        ELSE IF y.n > 0 THEN Lowest[x.n * y.d, x.d * y.n]
        ELSE Lowest[-(x.n * y.d), x.d * (-y.n)]

\* x <= y: false when either is NaN.
RLeq[x \in Float, y \in Float] ==
    IF x.d = 1 /\ y.d = 1 THEN x.n <= y.n
    ELSE /\ ~isNaN[x] /\ ~isNaN[y]
         /\ IF isInf[x] \/ isInf[y] THEN x = NInf \/ y = PInf
            ELSE x.n * y.d <= y.n * x.d

\* x < y: false when either is NaN.
RLess[x \in Float, y \in Float] ==
    /\ ~isNaN[x] /\ ~isNaN[y]
    /\ IF isInf[x] \/ isInf[y] THEN x # y /\ (x = NInf \/ y = PInf)
       ELSE x.n * y.d < y.n * x.d

\* --- complex128 ---
Complex == [re : Float, im : Float]

\* complex(x, y)
CxR[x \in Float, y \in Float] == [re |-> x, im |-> y]

Cx[a \in Int, b \in Int] == CxR[R[a], R[b]]

Zero == Cx[0, 0]

One == Cx[1, 0]

CAdd[x \in Complex, y \in Complex] == CxR[RAdd[x.re, y.re], RAdd[x.im, y.im]]

CSub[x \in Complex, y \in Complex] == CxR[RSub[x.re, y.re], RSub[x.im, y.im]]

CMul[x \in Complex, y \in Complex] ==
    CxR[RSub[RMul[x.re, y.re], RMul[x.im, y.im]],
        RAdd[RMul[x.re, y.im], RMul[x.im, y.re]]]

\* 1 with the sign of x when x is infinite, 0 otherwise.
inf2one[x \in Float] == IF isInf[x] THEN R[x.n] ELSE R[0]

\* complex128 division, as the Go runtime computes it: Smith's algorithm,
\* then, when both parts came out NaN, the C99 results for a zero
\* denominator, an infinite numerator or an infinite denominator.
CDiv[n \in Complex, m \in Complex] ==
    LET a == n.re
        b == n.im
        c == m.re
        d == m.im
        smith ==
            IF RLeq[RAbs[d], RAbs[c]]
            THEN LET ratio == RDiv[<<d, c>>]
                     denom == RAdd[c, RMul[ratio, d]]
                 IN  CxR[RDiv[<<RAdd[a, RMul[b, ratio]], denom>>],
                         RDiv[<<RSub[b, RMul[a, ratio]], denom>>]]
            ELSE LET ratio == RDiv[<<c, d>>]
                     denom == RAdd[d, RMul[ratio, c]]
                 IN  CxR[RDiv[<<RAdd[RMul[a, ratio], b], denom>>],
                         RDiv[<<RSub[RMul[b, ratio], a], denom>>]]
    IN  IF ~(isNaN[smith.re] /\ isNaN[smith.im]) THEN smith
        ELSE IF m = Zero /\ (~isNaN[a] \/ ~isNaN[b])
        THEN CxR[RMul[PInf, a], RMul[PInf, b]]
        ELSE IF (isInf[a] \/ isInf[b]) /\ isFinite[c] /\ isFinite[d]
        THEN LET a1 == inf2one[a]
                 b1 == inf2one[b]
             IN  CxR[RMul[PInf, RAdd[RMul[a1, c], RMul[b1, d]]],
                     RMul[PInf, RSub[RMul[b1, c], RMul[a1, d]]]]
        ELSE IF (isInf[c] \/ isInf[d]) /\ isFinite[a] /\ isFinite[b]
        THEN LET c1 == inf2one[c]
                 d1 == inf2one[d]
             IN  CxR[RMul[R[0], RAdd[RMul[a, c1], RMul[b, d1]]],
                     RMul[R[0], RSub[RMul[b, c1], RMul[a, d1]]]]
        ELSE smith

\* cmplx.Abs(z): +Inf when a part is infinite, NaN when a part is NaN;
\* otherwise the modulus, given here by its square.
AbsIsInf[z \in Complex] == isInf[z.re] \/ isInf[z.im]

AbsIsNaN[z \in Complex] == ~AbsIsInf[z] /\ (isNaN[z.re] \/ isNaN[z.im])

Abs2[z \in Complex] == RAdd[RMul[z.re, z.re], RMul[z.im, z.im]]

\* cmplx.Abs(z) is math.Hypot(re, im) = p * Sqrt(1 + (q/p)*(q/p)) for the
\* larger part p and the smaller part q.  It is |p| itself when q is 0, and
\* otherwise within a few units in the last place of the modulus, which
\* decides a comparison with the integer r unless the modulus is r.
HypotExact(z, r) ==
    \/ AbsIsInf[z] \/ AbsIsNaN[z]
    \/ z.re.n = 0 \/ z.im.n = 0
    \/ Abs2[z] # R[r * r]

\* cmplx.Abs(z) <= r for an integer r.
ExactHypots == {q \in Complex \X Int : HypotExact(q[1], q[2])}
AbsLeq[p \in ExactHypots] ==
    LET z == p[1]
        r == p[2]
    IN  ~AbsIsInf[z] /\ ~AbsIsNaN[z] /\ r >= 0 /\ RLeq[Abs2[z], R[r * r]]

\* cmplx.Abs(z) < e for an integer e.
AbsLess[p \in ExactHypots] ==
    LET z == p[1]
        e == p[2]
    IN  ~AbsIsInf[z] /\ ~AbsIsNaN[z] /\ e > 0 /\ RLess[Abs2[z], R[e * e]]


(***************************************************************************)
(* The caller-supplied maps C -> C (CCMap) the model draws P, Q, B, F and  *)
(* G from, named by what they compute.                                     *)
(***************************************************************************)
Apply(m, z) ==
    CASE m = "id"   -> z
      [] m = "sq"   -> CMul[z, z]
      [] m = "neg"  -> CSub[Zero, z]
      [] m = "dec"  -> CSub[z, One]
      [] m = "one"  -> One
      [] m = "zero" -> Zero

(***************************************************************************)
(* FracData and the variants.  One record shape holds every variant: kind  *)
(* names the Go type, the FracData fields are Radius, MaxIterations,       *)
(* degree and logDegreeInv, and the fields a variant does not have keep    *)
(* their zero values.  logDegreeInv is kept as the expression it was       *)
(* computed from: 1/ln(of), or the zero value of a field never set.        *)
(***************************************************************************)
NoInvLog == [set |-> FALSE, of |-> 0]

\* 1 / math.Log(x)
InvLog(x) == [set |-> TRUE, of |-> x]

\* FracData{Radius: radius}
FracData(kind, radius) ==
    [kind |-> kind, Radius |-> radius, MaxIterations |-> 0, degree |-> 0,
     logDegreeInv |-> NoInvLog,
     C |-> Zero, P |-> "id", Q |-> "one", B |-> "id", F |-> "id", G |-> "id",
     eps |-> 0]

SetDegree(f, x) == [f EXCEPT !.degree = x, !.logDegreeInv = InvLog(x)]

\* q := Quadratic{FracData{Radius: radius}}; q.SetDegree(2.0)
NewQuadratic(kind, radius) == SetDegree(FracData(kind, radius), 2)

NewMandelbrot(radius) == NewQuadratic("Mandelbrot", radius)

NewJuliaQ(radius, c) == [NewQuadratic("JuliaQ", radius) EXCEPT !.C = c]

NewJuliaR(radius, p, q, c) ==
    [FracData("JuliaR", radius) EXCEPT !.P = p, !.Q = q, !.C = c]

NewMandelPG(eps, b, ff, g) ==
    [FracData("MandelPG", 0) EXCEPT !.B = b, !.F = ff, !.G = g, !.eps = eps]

SetRadius(f, r) == [f EXCEPT !.Radius = r]

\* SetMaxIterations returns the error flag and the variant afterwards.
SetMaxIterationsWrong(f, n) ==
    IF n < 1 THEN [err |-> TRUE, f |-> f]
    ELSE [err |-> FALSE, f |-> [f EXCEPT !.MaxIterations = n - 1]]

SetMaxIterationsAcceptsZero(f, n) ==
    IF n < 0 THEN [err |-> TRUE, f |-> f]
    ELSE [err |-> FALSE, f |-> [f EXCEPT !.MaxIterations = n]]

SetMaxIterationsStoresFirst(f, n) ==
    [err |-> n < 1, f |-> [f EXCEPT !.MaxIterations = n]]

SetMaxIterations(f, n) ==
    IF n < 1 THEN [err |-> TRUE, f |-> f]
    ELSE [err |-> FALSE, f |-> [f EXCEPT !.MaxIterations = n]]

(***************************************************************************)
(* The outcome of one evaluation: the Result fields Z, C, Iterations (and  *)
(* NFactor, which no variant computes), with steps, the number of times    *)
(* the recurrence was applied, and returned, FALSE when the loop is still  *)
(* running after StepLimit steps.                                          *)
(***************************************************************************)
Ret(z, c, count, steps) ==
    [Z |-> z, C |-> c, Iterations |-> count, NFactor |-> 0,
     steps |-> steps, returned |-> TRUE]

Running(z, c, count, steps) ==
    [Z |-> z, C |-> c, Iterations |-> count, NFactor |-> 0,
     steps |-> steps, returned |-> FALSE]

(***************************************************************************)
(* Quadratic core                                                          *)
(***************************************************************************)
TrueMod2(z) == RAdd[RMul[z.re, z.re], RMul[z.im, z.im]]

\* a*a + b+b
getMod2(z) == RAdd[RAdd[RMul[z.re, z.re], z.im], z.im]

WithinRadius2Strict(z, r2) == RLess[getMod2(z), R[r2]]

\* The loop condition of q: mod2 <= r2.
WithinRadius2(z, r2) == RLeq[getMod2(z), R[r2]]

qMaxItWrong(f) == f.MaxIterations

\* maxIt := q.MaxIterations-1
qMaxIt(f) == f.MaxIterations - 1

qCapReachedLate(count, maxIt) == count = maxIt + 1

qCapNever(count, maxIt) == FALSE

\* if count == maxIt { break }
qCapReached(count, maxIt) == count = maxIt

qStepMinus(z, c) == CSub[CMul[z, z], c]

\* z = z*z + c
qStep(z, c) == CAdd[CMul[z, z], c]

RECURSIVE qLoop(_, _, _, _, _, _, _)
qLoop(z, c, count, steps, r2, maxIt, fuel) ==
    IF ~WithinRadius2(z, r2) THEN Ret(z, c, count, steps)
    ELSE IF fuel = 0 THEN Running(z, c, count, steps)
    ELSE LET z1 == qStep(z, c)
         IN  IF qCapReached(count, maxIt)
             THEN Ret(z1, c, count, steps + 1)
             ELSE qLoop(z1, c, count + 1, steps + 1, r2, maxIt, fuel - 1)

q(f, z, c) == qLoop(z, c, 0, 0, f.Radius * f.Radius, qMaxIt(f), StepLimit)

(***************************************************************************)
(* Mandelbrot                                                              *)
(***************************************************************************)
isCardioidOnly(z) ==
    LET rzp == RSub[z.re, Rat[<<1, 4>>]]
        imz2 == RMul[z.im, z.im]
        q0 == RAdd[RMul[rzp, rzp], imz2]
    IN  RLeq[RMul[q0, RAdd[q0, rzp]], RMul[Rat[<<1, 4>>], imz2]]

\* rzp := reZ - 0.25; q := rzp*rzp + imz2; q*(q+rzp) <= 0.25*imz2, or
\* (reZ+1)*(reZ+1)+imZ*imZ <= 0.0625
isCardioidOrP2Bulb(z) ==
    LET reZ == z.re
        imZ == z.im
        rzp == RSub[reZ, Rat[<<1, 4>>]]
        imz2 == RMul[imZ, imZ]
        q0 == RAdd[RMul[rzp, rzp], imz2]
        isCardiod == RLeq[RMul[q0, RAdd[q0, rzp]], RMul[Rat[<<1, 4>>], imz2]]
        isP2Bulb ==
            RLeq[RAdd[RMul[RAdd[reZ, R[1]], RAdd[reZ, R[1]]], RMul[imZ, imZ]],
                 Rat[<<1, 16>>]]
    IN  isCardiod \/ isP2Bulb

MandelbrotFrac(f, loc) ==
    IF isCardioidOrP2Bulb(loc)
    THEN Ret(loc, Zero, f.MaxIterations - 1, 0)
    ELSE q(f, Zero, loc)

(***************************************************************************)
(* JuliaQ                                                                  *)
(***************************************************************************)
JuliaQFrac(f, loc) == q(f, loc, f.C)

(***************************************************************************)
(* JuliaR                                                                  *)
(***************************************************************************)
\* z = r.P(z)/r.Q(z) + r.C
jrStep(f, z) == CAdd[CDiv[Apply(f.P, z), Apply(f.Q, z)], f.C]

jrCapReachedLate(f, count) == count = f.MaxIterations

\* if count == r.MaxIterations-1 { break }
jrCapReached(f, count) == count = f.MaxIterations - 1

RECURSIVE jrLoop(_, _, _, _, _)
jrLoop(f, z, count, steps, fuel) ==
    IF ~AbsLeq[<<z, f.Radius>>] THEN Ret(z, f.C, count, steps)
    ELSE IF fuel = 0 THEN Running(z, f.C, count, steps)
    ELSE LET z1 == jrStep(f, z)
         IN  IF jrCapReached(f, count)
             THEN Ret(z1, f.C, count, steps + 1)
             ELSE jrLoop(f, z1, count + 1, steps + 1, fuel - 1)

JuliaRFrac(f, loc) == jrLoop(f, loc, 0, 0, StepLimit)

(***************************************************************************)
(* MandelPG                                                                *)
(***************************************************************************)
\* zNext := m.B(z) - c
pgStep(f, z, c) == CSub[Apply(f.B, z), c]

pgConvergedOrEqual(f, zNext, z) == AbsLeq[<<CSub[zNext, z], f.eps>>]

\* if cmplx.Abs(zNext - z) < m.eps { break }
pgConverged(f, zNext, z) == AbsLess[<<CSub[zNext, z], f.eps>>]

RECURSIVE pgLoop(_, _, _, _, _, _)
pgLoop(f, z, c, count, steps, fuel) ==
    IF fuel = 0 THEN Running(z, c, count, steps)
    ELSE LET zNext == pgStep(f, z, c)
         IN  IF pgConverged(f, zNext, z)
             THEN Ret(z, c, count, steps + 1)
             ELSE IF count = f.MaxIterations - 1
                  THEN Ret(zNext, Apply(f.G, c), count, steps + 1)
                  ELSE pgLoop(f, zNext, Apply(f.G, c), count + 1, steps + 1,
                              fuel - 1)

MandelPGFrac(f, loc) == pgLoop(f, loc, Apply(f.F, loc), 0, 0, StepLimit)

\* Fraccer.Frac, dispatched on the variant's type.
Frac(f, loc) ==
    CASE f.kind = "Mandelbrot" -> MandelbrotFrac(f, loc)
      [] f.kind = "JuliaQ"     -> JuliaQFrac(f, loc)
      [] f.kind = "JuliaR"     -> JuliaRFrac(f, loc)
      [] f.kind = "MandelPG"   -> MandelPGFrac(f, loc)

(***************************************************************************)
(* State                                                                   *)
(***************************************************************************)
VARIABLES
    f,          \* the variant (Fraccer) the caller holds
    d,          \* the domain: rows, cols and the sample of cell (0, 0)
    iterations, \* FracIt's iterations argument
    numWorkers, \* runtime.NumCPU()
    pc,         \* where FracIt is
    ret,        \* what FracIt returned: the result collection and the error
    results,    \* the result store: made, the cell records, the Done calls
    rowJobs,    \* the rows buffered in the channel
    sent,       \* the number of rows FracIt has sent
    closed,     \* whether the channel is closed
    wg,         \* the WaitGroup counter
    spawned,    \* the number of goroutines started
    worker,     \* each goroutine: its pc, row, col and pending result r
    crashed,    \* the process has been terminated by a panic
    writes,     \* per cell, the number of SetResult calls made for it
    taken,      \* per row, the set of workers that received it
    reads,      \* the MaxIterations values the Frac calls of the run read
    ev          \* the last direct call on the variant: the operation, the
                \* variant before it, its argument, and what it returned

vars == <<f, d, iterations, numWorkers, pc, ret, results, rowJobs, sent,
          closed, wg, spawned, worker, crashed, writes, taken, reads, ev>>

dispatch == <<d, iterations, numWorkers, pc, ret, results, rowJobs, sent,
              closed, wg, spawned, worker, crashed, writes, taken, reads>>

Workers == 1..MaxWorkers

Points == {Cx[a, b] : a \in -MaxCoord..MaxCoord, b \in -MaxCoord..MaxCoord}

Params == {Zero, One, Cx[-1, 0], Cx[0, 1], Cx[0, -1]}

Radii == 0..MaxRadius

Epsilons == 0..MaxEps

\* The degrees SetDegree is called with.
Degrees == {3}

\* Variants as constructed, before any SetMaxIterations.
Variants ==
    {NewMandelbrot(r) : r \in Radii}
    \cup {NewJuliaQ(r, c) : r \in Radii, c \in Params}
    \cup {NewJuliaR(r, p, qq, c) :
            r \in Radii, p \in {"id", "sq"}, qq \in {"one", "zero", "id"},
            c \in {Zero, Cx[0, 1]}}
    \cup {NewMandelPG(e, b, ff, g) :
            e \in Epsilons, b \in {"id", "neg"}, ff \in {"id", "zero"},
            g \in {"id", "dec"}}

\* The samples of cell (0, 0) of the domains the dispatcher is run on.
Origins == {Cx[-1, 0], Cx[1, -1]}

\* The variants the dispatcher is run on: one of each type.
RunVariants ==
    {NewMandelbrot(2), NewJuliaQ(2, Cx[-1, 0]), NewJuliaR(2, "sq", "one", Zero),
     NewMandelPG(1, "id", "id", "dec")}

\* The variant FracIt is given is fresh from its constructor or has been
\* configured by an earlier run.
GivenVariants ==
    RunVariants \cup {SetMaxIterations(NewMandelbrot(2), 2).f}

(***************************************************************************)
(* Domain and result store (external to frac.go)                           *)
(***************************************************************************)
Rows == 0..(d.rows - 1)

Cols == 0..(d.cols - 1)

Cells == Rows \X Cols

\* DomainReader.Dimensions
Dimensions == [rows |-> d.rows, cols |-> d.cols]

\* DomainReader.At(col, row) when it succeeds: the grid is sampled at unit
\* steps from the sample of cell (0, 0).
At(col, row) == CAdd[d.origin, Cx[col, row]]

Unset == [Z |-> Zero, C |-> Zero, Iterations |-> -1]

NoResults == [made |-> FALSE, cell |-> <<>>, done |-> 0]

\* NewResults(rows, cols, iterations)
NewResults == [made |-> TRUE, cell |-> [c \in Cells |-> Unset], done |-> 0]

\* Results.SetResult(row, col, z, c, iterations)
SetResult(res, row, col, z, c, its) ==
    [res EXCEPT !.cell[<<row, col>>] = [Z |-> z, C |-> c, Iterations |-> its]]

\* Results.Done()
ResultsDone(res) == [res EXCEPT !.done = @ + 1]

NoRet == [results |-> "none", err |-> "none"]

Idle == [pc |-> "none", row |-> 0, col |-> 0, r |-> Unset]

NoCall ==
    [op |-> "none", f |-> NewMandelbrot(0), loc |-> Zero, n |-> 0,
     res |-> Ret(Zero, Zero, 0, 0), err |-> FALSE]

(***************************************************************************)
(* FracIt                                                                  *)
(***************************************************************************)
Init ==
    /\ f \in GivenVariants
    /\ d \in [rows : 0..MaxRows, cols : 0..MaxCols, origin : Origins]
    /\ iterations \in {-1, 0, 1, MaxIter}
    /\ numWorkers \in 1..MaxWorkers
    /\ pc = "call"
    /\ ret = NoRet
    /\ results = NoResults
    /\ rowJobs = <<>>
    /\ sent = 0
    /\ closed = FALSE
    /\ wg = 0
    /\ spawned = 0
    /\ worker = [w \in Workers |-> Idle]
    /\ crashed = FALSE
    /\ writes = <<>>
    /\ taken = <<>>
    /\ reads = {}
    /\ ev = NoCall

\* err := f.SetMaxIterations(iterations); if err != nil { return nil, err }
FracItConfigure ==
    /\ pc = "call" /\ ~crashed
    /\ LET r == SetMaxIterations(f, iterations)
       IN  /\ f' = r.f
           /\ IF r.err
              THEN /\ pc' = "failed"
                   /\ ret' = [results |-> "nil", err |-> "config"]
              ELSE /\ pc' = "dims"
                   /\ ret' = ret
    /\ UNCHANGED <<d, iterations, numWorkers, results, rowJobs, sent, closed,
                   wg, spawned, worker, crashed, writes, taken, reads, ev>>

ShapeInvalidBoth(rows, cols) == cols < 1 /\ rows < 1

\* if cols < 1 || rows < 1
ShapeInvalid(rows, cols) == cols < 1 \/ rows < 1

\* rows, cols := d.Dimensions(), the shape check, NewResults, the deferred
\* results.Done() and make(chan int, rows).
FracItDimensions ==
    /\ pc = "dims" /\ ~crashed
    /\ IF ShapeInvalid(Dimensions.rows, Dimensions.cols)
       THEN /\ pc' = "failed"
            /\ ret' = [results |-> "nil", err |-> "shape"]
            /\ UNCHANGED <<results, writes, taken>>
       ELSE /\ pc' = "spawn"
            /\ results' = NewResults
            /\ writes' = [c \in Cells |-> 0]
            /\ taken' = [r \in Rows |-> {}]
            /\ ret' = ret
    /\ UNCHANGED <<f, d, iterations, numWorkers, rowJobs, sent, closed, wg,
                   spawned, worker, crashed, reads, ev>>

WgAddTwo(counter) == counter + 2

\* wg.Add(1)
WgAdd(counter) == counter + 1

\* One turn of the loop over workers: wg.Add(1) and the go statement.
FracItSpawn ==
    /\ pc = "spawn" /\ ~crashed
    /\ spawned < numWorkers
    /\ wg' = WgAdd(wg)
    /\ spawned' = spawned + 1
    /\ worker' = [worker EXCEPT ![spawned + 1].pc = "range"]
    /\ pc' = IF spawned + 1 < numWorkers THEN "spawn" ELSE "send"
    /\ UNCHANGED <<f, d, iterations, numWorkers, ret, results, rowJobs, sent,
                   closed, crashed, writes, taken, reads, ev>>

RowsToSendShort(rows) == rows - 1

\* for row := 0; row < rows; row++
RowsToSend(rows) == rows

\* rowJobs <- row: blocks while the buffer (capacity rows) is full.
FracItSend ==
    /\ pc = "send" /\ ~crashed
    /\ sent < RowsToSend(d.rows)
    /\ Len(rowJobs) < d.rows
    /\ rowJobs' = Append(rowJobs, sent)
    /\ sent' = sent + 1
    /\ pc' = IF sent + 1 < RowsToSend(d.rows) THEN "send" ELSE "close"
    /\ UNCHANGED <<f, d, iterations, numWorkers, ret, results, closed, wg,
                   spawned, worker, crashed, writes, taken, reads, ev>>

\* close(rowJobs)
FracItClose ==
    /\ pc = "close" /\ ~crashed
    /\ closed' = TRUE
    /\ pc' = "wait"
    /\ UNCHANGED <<f, d, iterations, numWorkers, ret, results, rowJobs, sent,
                   wg, spawned, worker, crashed, writes, taken, reads, ev>>

WaitReturnsAtOnce(counter) == TRUE

\* wg.Wait() returns when the counter is zero.
WaitReturns(counter) == counter = 0

FracItWait ==
    /\ pc = "wait" /\ ~crashed
    /\ WaitReturns(wg)
    /\ pc' = "return"
    /\ UNCHANGED <<f, d, iterations, numWorkers, ret, results, rowJobs, sent,
                   closed, wg, spawned, worker, crashed, writes, taken, reads,
                   ev>>

\* return &results, nil: the deferred results.Done() runs, then the caller
\* has the collection.
FracItReturn ==
    /\ pc = "return" /\ ~crashed
    /\ results' = ResultsDone(results)
    /\ ret' = [results |-> "collection", err |-> "nil"]
    /\ pc' = "returned"
    /\ UNCHANGED <<f, d, iterations, numWorkers, rowJobs, sent, closed, wg,
                   spawned, worker, crashed, writes, taken, reads, ev>>

(***************************************************************************)
(* The worker goroutines                                                   *)
(***************************************************************************)
ReceiveKeeping(ch) == [row |-> Head(ch), rest |-> ch]

\* A receive from the non-empty channel takes its first row out.
Receive(ch) == [row |-> Head(ch), rest |-> Tail(ch)]

\* for row := range rowJobs: receive a row; leave the loop when the channel
\* is closed and empty (the deferred wg.Done() runs); block otherwise.
WorkerRange(w) ==
    /\ worker[w].pc = "range" /\ ~crashed
    /\ IF rowJobs # <<>>
       THEN LET got == Receive(rowJobs)
            IN  /\ rowJobs' = got.rest
                /\ worker' = [worker EXCEPT ![w].pc = "col", ![w].row = got.row,
                                            ![w].col = 0]
                /\ taken' = [taken EXCEPT ![got.row] = @ \cup {w}]
                /\ wg' = wg
       ELSE /\ closed
            /\ worker' = [worker EXCEPT ![w].pc = "exited"]
            /\ wg' = wg - 1
            /\ UNCHANGED <<rowJobs, taken>>
    /\ UNCHANGED <<f, d, iterations, numWorkers, pc, ret, results, sent,
                   closed, spawned, crashed, writes, reads, ev>>

\* loc, err := d.At(col, row) succeeds; r := f.Frac(loc)
WorkerFrac(w) ==
    /\ worker[w].pc = "col" /\ ~crashed
    /\ LET r == Frac(f, At(worker[w].col, worker[w].row))
       IN  worker' = [worker EXCEPT ![w].pc = "set",
                        ![w].r = [Z |-> r.Z, C |-> r.C, Iterations |-> r.Iterations]]
    /\ reads' = reads \cup {f.MaxIterations}
    /\ UNCHANGED <<f, d, iterations, numWorkers, pc, ret, results, rowJobs,
                   sent, closed, wg, spawned, crashed, writes, taken, ev>>

\* loc, err := d.At(col, row) fails; panic(err): the deferred wg.Done() runs
\* and the goroutine has no frame left to unwind.
WorkerPanic(w) ==
    /\ worker[w].pc = "col" /\ ~crashed
    /\ worker' = [worker EXCEPT ![w].pc = "fatal"]
    /\ wg' = wg - 1
    /\ UNCHANGED <<f, d, iterations, numWorkers, pc, ret, results, rowJobs,
                   sent, closed, spawned, crashed, writes, taken, reads, ev>>

\* The r of some goroutine that is about to store, as if r were one variable
\* declared outside the goroutines.
PendingShared(w) ==
    worker[CHOOSE v \in Workers :
             /\ worker[v].pc = "set"
             /\ \A u \in Workers : worker[u].pc = "set" => u <= v].r

\* r is declared inside the goroutine: each worker stores its own.
Pending(w) == worker[w].r

StoreTransposed(res, row, col, r) ==
    SetResult(res, col, row, r.Z, r.C, r.Iterations)

\* results.SetResult(row, col, r.Z, r.C, r.Iterations)
Store(res, row, col, r) == SetResult(res, row, col, r.Z, r.C, r.Iterations)

\* The SetResult call and col++: the next column, or back to the range loop.
WorkerSetResult(w) ==
    /\ worker[w].pc = "set" /\ ~crashed
    /\ results' = Store(results, worker[w].row, worker[w].col, Pending(w))
    /\ writes' = [writes EXCEPT ![<<worker[w].row, worker[w].col>>] = @ + 1]
    /\ worker' = [worker EXCEPT
                    ![w].col = @ + 1,
                    ![w].pc = IF worker[w].col + 1 < d.cols THEN "col" ELSE "range"]
    /\ UNCHANGED <<f, d, iterations, numWorkers, pc, ret, rowJobs, sent,
                   closed, wg, spawned, crashed, taken, reads, ev>>

\* A panic that reached the top of its goroutine terminates the program.
Crash ==
    /\ ~crashed
    /\ \E w \in Workers : worker[w].pc = "fatal"
    /\ crashed' = TRUE
    /\ UNCHANGED <<f, d, iterations, numWorkers, pc, ret, results, rowJobs,
                   sent, closed, wg, spawned, worker, writes, taken, reads, ev>>

Next ==
    \/ FracItConfigure
    \/ FracItDimensions
    \/ FracItSpawn
    \/ FracItSend
    \/ FracItClose
    \/ FracItWait
    \/ FracItReturn
    \/ \E w \in Workers : WorkerRange(w)
    \/ \E w \in Workers : WorkerFrac(w)
    \/ \E w \in Workers : WorkerPanic(w)
    \/ \E w \in Workers : WorkerSetResult(w)
    \/ Crash

Spec == Init /\ [][Next]_vars

\* The steps of the goroutine running FracIt.
FracItStep ==
    \/ FracItConfigure
    \/ FracItDimensions
    \/ FracItSpawn
    \/ FracItSend
    \/ FracItClose
    \/ FracItWait
    \/ FracItReturn

\* The steps of worker w when its domain lookups succeed.
WorkerStep(w) == WorkerRange(w) \/ WorkerFrac(w) \/ WorkerSetResult(w)

\* The calls the progress of FracIt is followed on: every variant type,
\* domains of no column or one (the column count only sets how long a
\* worker holds a row), and a refused or an accepted iteration count.
InitLive ==
    /\ Init
    /\ f \in RunVariants
    /\ d.cols \in {0, 1}
    /\ iterations \in {0, 1}

\* The Go scheduler runs every goroutine that can take a step, and a
\* lookup or a Frac call that has been made returns.
FairSpec ==
    /\ InitLive /\ [][Next]_vars
    /\ WF_vars(FracItStep)
    /\ \A w \in Workers : WF_vars(WorkerStep(w))

(***************************************************************************)
(* The variants called directly: a variant is constructed, then configured *)
(* and evaluated in any order.                                             *)
(***************************************************************************)
InitFrac ==
    /\ f \in Variants
    /\ d = [rows |-> 0, cols |-> 0, origin |-> Zero]
    /\ iterations = 0
    /\ numWorkers = 1
    /\ pc = "idle"
    /\ ret = NoRet
    /\ results = NoResults
    /\ rowJobs = <<>>
    /\ sent = 0
    /\ closed = FALSE
    /\ wg = 0
    /\ spawned = 0
    /\ worker = [w \in Workers |-> Idle]
    /\ crashed = FALSE
    /\ writes = <<>>
    /\ taken = <<>>
    /\ reads = {}
    /\ ev = NoCall

CallSetMaxIterations ==
    /\ pc = "idle"
    /\ \E n \in -1..MaxEvalIter :
         LET r == SetMaxIterations(f, n)
         IN  /\ f' = r.f
             /\ ev' = [NoCall EXCEPT !.op = "SetMaxIterations", !.f = f,
                                     !.n = n, !.err = r.err]
    /\ UNCHANGED dispatch

CallSetRadius ==
    /\ pc = "idle"
    /\ \E r \in Radii :
         /\ f' = SetRadius(f, r)
         /\ ev' = [NoCall EXCEPT !.op = "SetRadius", !.f = f, !.n = r]
    /\ UNCHANGED dispatch

CallSetDegree ==
    /\ pc = "idle"
    /\ \E x \in Degrees :
         /\ f' = SetDegree(f, x)
         /\ ev' = [NoCall EXCEPT !.op = "SetDegree", !.f = f, !.n = x]
    /\ UNCHANGED dispatch

CallFrac ==
    /\ pc = "idle"
    /\ \E loc \in Points :
         ev' = [NoCall EXCEPT !.op = "Frac", !.f = f, !.loc = loc,
                              !.res = Frac(f, loc)]
    /\ UNCHANGED <<f, dispatch>>

\* Evaluations: a variant as constructed, with any bailout radius, is given
\* iteration counts and evaluated at points.
NextFrac == CallSetMaxIterations \/ CallFrac

SpecFrac == InitFrac /\ [][NextFrac]_vars

\* The setters of FracData, called in any order on any variant.
NextData == CallSetMaxIterations \/ CallSetRadius \/ CallSetDegree

SpecData == InitFrac /\ [][NextData]_vars

(***************************************************************************)
(* FracIt run alone by one worker: rows in order, columns in order.        *)
(***************************************************************************)
RECURSIVE SingleWorkerFrom(_, _, _)
SingleWorkerFrom(res, row, col) ==
    IF row >= d.rows THEN res
    ELSE LET stored == Store(res, row, col, Frac(f, At(col, row)))
         IN  IF col + 1 < d.cols
             THEN SingleWorkerFrom(stored, row, col + 1)
             ELSE SingleWorkerFrom(stored, row + 1, 0)

\* results := NewResults(...); defer results.Done(); the rows; return
SingleWorkerResults == ResultsDone(SingleWorkerFrom(NewResults, 0, 0))

(***************************************************************************)
(* Properties                                                              *)
(***************************************************************************)
ValidCall == iterations >= 1 /\ d.rows >= 1 /\ d.cols >= 1

\* No domain lookup of the run has failed.
NoFault == \A w \in Workers : worker[w].pc # "fatal"

Quadratics == {"Mandelbrot", "JuliaQ"}

\* C1: in a valid call no cell is ever written twice and no row is received
\* by two workers; when FracIt returns from a run whose lookups all
\* succeeded, every cell has been written exactly once.
C1_EveryCellOnce ==
    (ValidCall /\ results.made) =>
        /\ \A c \in Cells : writes[c] <= 1
        /\ \A r \in Rows : Cardinality(taken[r]) <= 1
        /\ (pc = "returned" /\ NoFault) => \A c \in Cells : writes[c] = 1

C1_Witness ==
    /\ pc = "returned" /\ NoFault
    /\ d.rows = 2 /\ d.cols = 2 /\ numWorkers = 2
    /\ taken[0] = {2} /\ taken[1] = {1}
    /\ \A c \in Cells : writes[c] = 1

\* C2: a call with iterations < 1, rows < 1 or cols < 1 never gets past its
\* checks: no worker is started, nothing is looked up, evaluated or written,
\* no result store is made or finalized, and what it returns is an error
\* with no collection.
C2_FailFast ==
    (iterations < 1 \/ d.rows < 1 \/ d.cols < 1) =>
        /\ pc \in {"call", "dims", "failed"}
        /\ spawned = 0 /\ wg = 0
        /\ \A w \in Workers : worker[w].pc = "none"
        /\ reads = {} /\ writes = <<>> /\ rowJobs = <<>>
        /\ ~results.made /\ results.done = 0
        /\ ret.results # "collection"
        /\ pc = "failed" => (ret.results = "nil" /\ ret.err \in {"config", "shape"})

C2_Witness ==
    /\ pc = "failed" /\ ret = [results |-> "nil", err |-> "shape"]
    /\ iterations >= 1 /\ d.rows >= 1 /\ d.cols < 1
    /\ spawned = 0 /\ ~results.made

\* C3: the result store is finalized at most once; in a run whose lookups
\* all succeed it is finalized only when every row has been sent and
\* received, every cell written and every worker has exited; and FracIt has
\* returned the collection only with the store finalized exactly once.
C3_FinalizedOnceAtTheEnd ==
    /\ results.done <= 1
    /\ (results.done = 1 /\ NoFault) =>
          /\ sent = d.rows /\ closed /\ rowJobs = <<>>
          /\ \A r \in Rows : taken[r] # {}
          /\ \A c \in Cells : writes[c] >= 1
          /\ \A w \in 1..numWorkers : worker[w].pc = "exited"
          /\ wg = 0
    /\ (pc = "returned" \/ ret.results = "collection") => results.done = 1

C3_Witness ==
    /\ pc = "returned" /\ results.done = 1 /\ NoFault
    /\ d.rows = 2 /\ numWorkers = 2
    /\ \A w \in 1..numWorkers : worker[w].pc = "exited"

\* C4 as claimed: a row has been received only when every row has been sent.
C4_AllSentBeforeAnyReceive ==
    (\E r \in DOMAIN taken : taken[r] # {}) => sent = d.rows

\* C4, amended: every worker is started before the first row is sent, rows
\* are received while later rows are still unsent, every row has been sent
\* when the channel is closed, and a send never finds the buffer full.
C4_AllSentBeforeClose ==
    /\ closed => sent = d.rows
    /\ sent > 0 => spawned = numWorkers
    /\ pc = "send" => Len(rowJobs) < d.rows

C4_Witness ==
    /\ closed /\ sent = d.rows /\ d.rows = 2
    /\ taken[0] # {} /\ taken[1] = {} /\ rowJobs = <<1>>

\* C5: from the start of the first worker on the variant holds
\* MaxIterations = iterations and is not written again, and every Frac call
\* of the run read MaxIterations = iterations.
C5_ConfiguredBeforeWorkers ==
    /\ [](spawned > 0 => (f.MaxIterations = iterations /\ pc # "call"))
    /\ [](reads \subseteq {iterations})
    /\ [][spawned > 0 => f' = f]_vars

C5_Witness ==
    /\ pc = "returned" /\ reads = {iterations} /\ iterations = 3
    /\ f.MaxIterations = 3

\* C6 as claimed: once a domain lookup has failed, FracIt does not return a
\* result collection.
C6_FaultNeverReturns ==
    (\E w \in Workers : worker[w].pc = "fatal") => ret.results # "collection"

\* C7: the collection FracIt returns, whatever the number of workers and
\* their interleaving, is cell by cell the one a single worker produces.
C7_SameAsSingleWorker ==
    (pc = "returned" /\ NoFault) => results = SingleWorkerResults

C7_Witness ==
    /\ pc = "returned" /\ NoFault /\ numWorkers = 2
    /\ d.rows = 2 /\ d.cols = 2
    /\ taken[0] = {2} /\ taken[1] = {1}
    /\ results = SingleWorkerResults
    /\ results.cell[<<0, 0>>] # results.cell[<<1, 1>>]

\* C8: a Frac call on a variant with MaxIterations >= 1 returns a record
\* with 0 <= Iterations <= MaxIterations - 1.
C8_IterationsInRange ==
    (ev.op = "Frac" /\ ev.f.MaxIterations >= 1) =>
        /\ ev.res.returned
        /\ ev.res.Iterations >= 0
        /\ ev.res.Iterations <= ev.f.MaxIterations - 1

C8_Witness ==
    /\ ev.op = "Frac" /\ ev.f.kind = "JuliaR" /\ ev.f.MaxIterations = 3
    /\ ev.res.returned /\ ev.res.Iterations = 2

\* C9 as claimed: the quadratic core applies z <- z*z + c at most
\* MaxIterations - 1 times in one evaluation.
C9_AtMostMaxIterationsMinusOne ==
    (ev.op = "Frac" /\ ev.f.kind \in Quadratics /\ ev.f.MaxIterations >= 1) =>
        ev.res.steps <= ev.f.MaxIterations - 1

\* C9, amended: the quadratic core applies z <- z*z + c at most
\* MaxIterations times in one evaluation.
C9_AtMostMaxIterations ==
    (ev.op = "Frac" /\ ev.f.kind \in Quadratics /\ ev.f.MaxIterations >= 1) =>
        ev.res.steps <= ev.f.MaxIterations

C9_Witness ==
    /\ ev.op = "Frac" /\ ev.f.kind = "JuliaQ" /\ ev.f.MaxIterations = 3
    /\ ev.res.steps = 3 /\ ev.res.Iterations = 2

\* C10 as claimed: the value the quadratic core compares with radius*radius
\* is real^2 + imag^2, so that its bailout decision is the true one.
C10_TrueSquaredModulus ==
    (ev.op = "Frac" /\ ev.f.kind = "JuliaQ") =>
        /\ getMod2(ev.loc) = TrueMod2(ev.loc)
        /\ WithinRadius2(ev.loc, ev.f.Radius * ev.f.Radius)
             <=> RLeq[TrueMod2(ev.loc), R[ev.f.Radius * ev.f.Radius]]

\* C11: SetMaxIterations(n) with n < 1 returns an error and leaves the
\* variant as it was; with n >= 1 it returns no error and the variant holds
\* MaxIterations = n, nothing else changed.
C11_SetMaxIterationsStoresOrFails ==
    ev.op = "SetMaxIterations" =>
        IF ev.n < 1
        THEN ev.err /\ f = ev.f
        ELSE ~ev.err /\ f = [ev.f EXCEPT !.MaxIterations = ev.n]

C11_Witness ==
    /\ ev.op = "SetMaxIterations" /\ ev.n = -1 /\ ev.err
    /\ ev.f.MaxIterations = 3 /\ f.MaxIterations = 3

\* The main cardioid: q*(q+p) <= Im(c)^2/4 with p = Re(c) - 1/4 and
\* q = p^2 + Im(c)^2.
InMainCardioid(c) ==
    LET p == RSub[c.re, Rat[<<1, 4>>]]
        im2 == RMul[c.im, c.im]
        qq == RAdd[RMul[p, p], im2]
    IN  RLeq[RMul[qq, RAdd[qq, p]], RDiv[<<im2, R[4]>>]]

\* The period-2 bulb: |c + 1|^2 <= 1/16.
InPeriod2Bulb(c) == RLeq[Abs2[CAdd[c, One]], Rat[<<1, 16>>]]

\* C12: Mandelbrot.Frac at a point of the main cardioid or of the period-2
\* bulb returns {Z: c, C: 0, Iterations: MaxIterations-1} with no step
\* applied; at c = 0 it returns Iterations = MaxIterations-1.
C12_InteriorShortCut ==
    (ev.op = "Frac" /\ ev.f.kind = "Mandelbrot") =>
        /\ (InMainCardioid(ev.loc) \/ InPeriod2Bulb(ev.loc)) =>
              /\ ev.res.returned /\ ev.res.steps = 0
              /\ ev.res.Z = ev.loc /\ ev.res.C = Zero
              /\ ev.res.Iterations = ev.f.MaxIterations - 1
        /\ (ev.loc = Zero /\ ev.f.MaxIterations >= 1) =>
              ev.res.Iterations = ev.f.MaxIterations - 1

C12_Witness ==
    /\ ev.op = "Frac" /\ ev.f.kind = "Mandelbrot" /\ ev.loc = Cx[-1, 0]
    /\ InPeriod2Bulb(ev.loc) /\ ~InMainCardioid(ev.loc)
    /\ ev.f.MaxIterations = 3
    /\ ev.res.Iterations = 2 /\ ev.res.steps = 0 /\ ev.res.Z = Cx[-1, 0]

\* C13: Mandelbrot.Frac at c = 2 with radius 2 returns
\* Iterations < MaxIterations-1 whenever MaxIterations >= 5.
C13_ExteriorPointEscapes ==
    (/\ ev.op = "Frac" /\ ev.f.kind = "Mandelbrot" /\ ev.loc = Cx[2, 0]
     /\ ev.f.Radius = 2 /\ ev.f.MaxIterations >= 5) =>
        /\ ev.res.returned
        /\ ev.res.steps > 0
        /\ ev.res.Iterations < ev.f.MaxIterations - 1

C13_Witness ==
    /\ ev.op = "Frac" /\ ev.f.kind = "Mandelbrot" /\ ev.loc = Cx[2, 0]
    /\ ev.f.Radius = 2 /\ ev.f.MaxIterations = 5
    /\ ev.res.Iterations = 2 /\ ev.res.C = Cx[2, 0]

\* C14: JuliaQ.Frac with C = 0 at the sample point 0, any radius >= 0 and
\* MaxIterations >= 1, returns Iterations = MaxIterations-1, Z = 0, C = 0.
C14_JuliaFixedPoint ==
    (/\ ev.op = "Frac" /\ ev.f.kind = "JuliaQ" /\ ev.f.C = Zero
     /\ ev.loc = Zero /\ ev.f.Radius >= 0 /\ ev.f.MaxIterations >= 1) =>
        /\ ev.res.returned
        /\ ev.res.Iterations = ev.f.MaxIterations - 1
        /\ ev.res.Z = Zero /\ ev.res.C = Zero

C14_Witness ==
    /\ ev.op = "Frac" /\ ev.f.kind = "JuliaQ" /\ ev.f.C = Zero
    /\ ev.loc = Zero /\ ev.f.Radius = 0 /\ ev.f.MaxIterations = 4
    /\ ev.res.Iterations = 3

\* The polynomiograph's sequences: c_0 = F(sample), c_{n+1} = G(c_n),
\* z_0 = sample, z_{n+1} = B(z_n) - c_n.
RECURSIVE SeqC(_, _, _)
SeqC(v, loc, n) ==
    IF n = 0 THEN Apply(v.F, loc) ELSE Apply(v.G, SeqC(v, loc, n - 1))

RECURSIVE SeqZ(_, _, _)
SeqZ(v, loc, n) ==
    IF n = 0 THEN loc
    ELSE CSub[Apply(v.B, SeqZ(v, loc, n - 1)), SeqC(v, loc, n - 1)]

\* |z_{n+1} - z_n| < eps
ConvergedAt(v, loc, n) ==
    AbsLess[<<CSub[SeqZ(v, loc, n + 1), SeqZ(v, loc, n)], v.eps>>]

FirstConvergedAt(v, loc, k) ==
    /\ ConvergedAt(v, loc, k)
    /\ \A n \in 0..(k - 1) : ~ConvergedAt(v, loc, n)

\* C15: if the convergence test first holds at step k < MaxIterations-1,
\* MandelPG.Frac returns Iterations = k, Z = z_k, C = c_k, NFactor = 0.
C15_ConvergenceStep ==
    (ev.op = "Frac" /\ ev.f.kind = "MandelPG") =>
        \A k \in 0..(ev.f.MaxIterations - 2) :
            FirstConvergedAt(ev.f, ev.loc, k) =>
                /\ ev.res.returned
                /\ ev.res.Iterations = k
                /\ ev.res.Z = SeqZ(ev.f, ev.loc, k)
                /\ ev.res.C = SeqC(ev.f, ev.loc, k)
                /\ ev.res.NFactor = 0

C15_Witness ==
    /\ ev.op = "Frac" /\ ev.f.kind = "MandelPG" /\ ev.f.MaxIterations = 4
    /\ FirstConvergedAt(ev.f, ev.loc, 2)
    /\ ev.res.Iterations = 2 /\ ev.res.Z # ev.loc /\ ev.res.C # SeqC(ev.f, ev.loc, 0)

\* The least n <= last at which the test |z_n| <= radius fails, for
\* z_0 = z and z_{n+1} = P(z_n)/Q(z_n) + C counted from n; -1 when none.
RECURSIVE FirstExceedance(_, _, _, _)
FirstExceedance(v, z, n, last) ==
    IF ~AbsLeq[<<z, v.Radius>>] THEN n
    ELSE IF n >= last THEN -1
    ELSE FirstExceedance(v, jrStep(v, z), n + 1, last)

\* C16 as claimed: with n the first exceedance, n <= MaxIterations-1,
\* exactly n steps are applied and Iterations = n; with none, exactly
\* MaxIterations-1 steps are applied and Iterations = MaxIterations-1.
C16_StopsAfterMaxIterationsMinusOne ==
    (ev.op = "Frac" /\ ev.f.kind = "JuliaR" /\ ev.f.MaxIterations >= 1) =>
        LET n == FirstExceedance(ev.f, ev.loc, 0, ev.f.MaxIterations - 1)
        IN  IF n >= 0
            THEN ev.res.steps = n /\ ev.res.Iterations = n
            ELSE /\ ev.res.steps = ev.f.MaxIterations - 1
                 /\ ev.res.Iterations = ev.f.MaxIterations - 1

\* C16, amended: with n the first exceedance, n <= MaxIterations-1, exactly
\* n steps are applied and Iterations = n; with none, exactly MaxIterations
\* steps are applied and Iterations = MaxIterations-1.
C16_StopsAfterMaxIterations ==
    (ev.op = "Frac" /\ ev.f.kind = "JuliaR" /\ ev.f.MaxIterations >= 1) =>
        LET n == FirstExceedance(ev.f, ev.loc, 0, ev.f.MaxIterations - 1)
        IN  /\ ev.res.returned
            /\ IF n >= 0
               THEN ev.res.steps = n /\ ev.res.Iterations = n
               ELSE /\ ev.res.steps = ev.f.MaxIterations
                    /\ ev.res.Iterations = ev.f.MaxIterations - 1

C16_Witness ==
    /\ ev.op = "Frac" /\ ev.f.kind = "JuliaR" /\ ev.f.MaxIterations = 3
    /\ FirstExceedance(ev.f, ev.loc, 0, 2) = -1
    /\ ev.res.steps = 3 /\ ev.res.Iterations = 2

\* The loop of the evaluation was left by its own test, not by the cap.
LeftByOwnTest(c) ==
    CASE c.f.kind = "Mandelbrot" ->
           \/ c.res.steps = 0 /\ isCardioidOrP2Bulb(c.loc)
           \/ ~WithinRadius2(c.res.Z, c.f.Radius * c.f.Radius)
      [] c.f.kind = "JuliaQ" -> ~WithinRadius2(c.res.Z, c.f.Radius * c.f.Radius)
      [] c.f.kind = "JuliaR" -> ~AbsLeq[<<c.res.Z, c.f.Radius>>]
      [] c.f.kind = "MandelPG" ->
           pgConverged(c.f, pgStep(c.f, c.res.Z, c.res.C), c.res.Z)

\* C18: with MaxIterations >= 1 every Frac call returns, after at most
\* MaxIterations applications of its recurrence; with MaxIterations = 0 the
\* cap never ends a loop: a call that returns was ended by its own test.
C18_EvaluationsTerminate ==
    ev.op = "Frac" =>
        /\ ev.f.MaxIterations >= 1 =>
              (ev.res.returned /\ ev.res.steps <= ev.f.MaxIterations)
        /\ (ev.f.MaxIterations = 0 /\ ev.res.returned) => LeftByOwnTest(ev)

C18_Witness ==
    /\ ev.op = "Frac" /\ ev.f.kind = "MandelPG" /\ ev.f.eps = 0
    /\ ev.f.MaxIterations = 5
    /\ ev.res.returned /\ ev.res.steps = 5 /\ ev.res.Iterations = 4

\* An evaluation with MaxIterations = 0 that is still in its loop after
\* StepLimit steps.
C18_UncappedStillRunning ==
    /\ ev.op = "Frac" /\ ev.f.MaxIterations = 0
    /\ ~ev.res.returned /\ ev.res.steps = StepLimit

\* C17: in a valid call a send never finds the buffer full, and, unless a
\* lookup fails, every worker exits once the channel is closed and empty
\* and FracIt returns.
C17_NeverDeadlocks ==
    /\ [](pc = "send" => Len(rowJobs) < d.rows)
    /\ []((pc \in {"return", "returned"} /\ NoFault) =>
            \A w \in 1..numWorkers : worker[w].pc = "exited")
    /\ <>(~ValidCall \/ ~NoFault \/ pc = "returned")

C17_Witness ==
    /\ pc = "returned" /\ NoFault /\ ~crashed
    /\ numWorkers = 2 /\ d.rows = 1
    /\ \A w \in 1..numWorkers : worker[w].pc = "exited"

\* C19: a call with iterations < 1 fails with the configuration error and
\* the variant untouched, whatever the shape; a call with iterations >= 1
\* and an invalid shape fails with the shape error, the variant already
\* holding MaxIterations = iterations.
C19_IterationsCheckedFirst ==
    /\ [][(pc = "call" /\ iterations < 1) =>
            /\ pc' = "failed"
            /\ ret' = [results |-> "nil", err |-> "config"]
            /\ f' = f]_vars
    /\ [][(pc = "call" /\ iterations >= 1) =>
            /\ pc' = "dims"
            /\ ret' = ret
            /\ f'.MaxIterations = iterations]_vars
    /\ [][(pc = "dims" /\ (d.rows < 1 \/ d.cols < 1)) =>
            /\ pc' = "failed"
            /\ ret' = [results |-> "nil", err |-> "shape"]
            /\ f' = f /\ f.MaxIterations = iterations]_vars
    /\ [][ret'.err = "config" => (pc = "call" /\ iterations < 1)]_vars
    /\ [][ret'.err = "shape" => (pc = "dims" /\ iterations >= 1)]_vars

C19_Witness ==
    /\ pc = "failed" /\ ret.err = "config" /\ iterations = 0
    /\ d.rows = 0 /\ f.MaxIterations = 2

C19_ShapeErrorWitness ==
    /\ pc = "failed" /\ ret.err = "shape" /\ iterations = 3
    /\ d.cols = 0 /\ f.MaxIterations = 3

=============================================================================
